---- MODULE Spec2Model ----
(***************************************************************************)
(* Model of the duplex-printing page pipeline of pdf_processor.py:         *)
(* process_pdf (removal, title insertion, even padding, odd/even split,    *)
(* rotation, watermarks), split_pdf_into_chunks and process_multiple_pdfs. *)
(*                                                                         *)
(* A page is a record [kind, doc, idx, rot, wm]: kind is "src", "title" or *)
(* "blank"; doc is the file it was made for; idx is the page's true        *)
(* 1-based index in its source document (0 for a synthesized page); rot is *)
(* the /Rotate value; wm is the sequence of watermark overlays merged onto *)
(* it.  A reader or a writer is the sequence of its pages: reader.pages[i] *)
(* of the code is pages[i + 1] here.  A Python dict keyed by page index is *)
(* a function on 0..n-1.  An optional value is <<>> (None) or <<v>>.       *)
(* Page geometry and the drawing done by reportlab are not represented: an *)
(* overlay is recorded by what it shows and where it is anchored.  The     *)
(* three entry points are called one at a time.  A title page drawn        *)
(* without the image has kind "title_text".                                *)
(***************************************************************************)
EXTENDS Integers, Sequences, FiniteSets, TLC

\* ---------------------------------------------------------------- bounds
MaxPages == 5
MaxBatch == 2
MaxChunkPages == 7
MaxChunkSize == 3
MaxUploadPages == 2

\* ------------------------------------------------------ program constants
BatchChunkSize == 20
HalfTurn == 180

Names == {"a.pdf", "b.pdf"}
SrcRotations == {0, 90}

None == <<>>
Some(v) == <<v>>

\* ------------------------------------------------------------ small helpers
RECURSIVE Concat(_)
Concat(seqs) ==
  IF seqs = <<>> THEN <<>> ELSE Head(seqs) \o Concat(Tail(seqs))

RECURSIVE SumSeq(_)
SumSeq(s) ==
  IF s = <<>> THEN 0 ELSE Head(s) + SumSeq(Tail(s))

Reverse(s) == [j \in 1..Len(s) |-> s[Len(s) - j + 1]]

\* Python's sorted() on a list of integers.
RECURSIVE sorted(_)
sorted(s) ==
  IF s = <<>> THEN <<>>
  ELSE LET m == CHOOSE j \in 1..Len(s) : \A k \in 1..Len(s) : s[j] <= s[k]
       IN <<s[m]>> \o sorted([j \in 1..(Len(s) - 1) |-> IF j < m THEN s[j] ELSE s[j + 1]])

\* Python's // (floor division) for any nonzero divisor.
PyFloorDiv(a, b) ==
  IF b > 0 THEN a \div b
  ELSE IF a >= 0 THEN -((a + (-b) - 1) \div (-b))
  ELSE (-a) \div (-b)

Min(a, b) == IF a < b THEN a ELSE b

\* ------------------------------------------------------------------- pages
Page(kind, doc, idx, rot) ==
  [kind |-> kind, doc |-> doc, idx |-> idx, rot |-> rot, wm |-> <<>>]

\* PdfReader(input_path): the pages of a source document.
PdfReader(d) ==
  [i \in 1..d.n |-> Page("src", d.name, i, d.rot)]

clone_page(page) ==
  [kind |-> page.kind, doc |-> page.doc, idx |-> page.idx, rot |-> page.rot, wm |-> page.wm]

rotate(page, angle) ==
  [page EXCEPT !.rot = (@ + angle) % 360]

\* create_title_page: the image above the file name, or the file name alone
\* when the image is not found or cannot be loaded.
create_title_page(filename, image_ok) ==
  <<Page(IF image_ok THEN "title" ELSE "title_text", filename, 0, 0)>>

\* Faulty variant of add_title_page_to_pdf: the title page is added last.
add_title_page_at_end(reader, filename, image_ok) ==
  reader \o <<create_title_page(filename, image_ok)[1]>>

add_title_page_to_pdf(reader, filename, image_ok) ==
  <<create_title_page(filename, image_ok)[1]>> \o reader

\* Faulty variant of ensure_even_page_count: the parity test is inverted.
ensure_even_page_count_inverted(reader, blank_ok) ==
  LET total_pages == Len(reader) IN
  IF total_pages % 2 = 1 THEN reader
  ELSE reader \o <<Page("blank", reader[1].doc, 0, 0)>>

\* Faulty variant of ensure_even_page_count: the fallback clones the last
\* page of the reader.
ensure_even_page_count_clones_last(reader, blank_ok) ==
  LET total_pages == Len(reader) IN
  IF total_pages % 2 = 0 THEN reader
  ELSE LET blank_page == IF blank_ok THEN Page("blank", reader[1].doc, 0, 0)
                         ELSE clone_page(reader[total_pages])
       IN reader \o <<blank_page>>

ensure_even_page_count(reader, blank_ok) ==
  LET total_pages == Len(reader) IN
  IF total_pages % 2 = 0 THEN reader
  ELSE LET blank_page == IF blank_ok THEN Page("blank", reader[1].doc, 0, 0)
                         ELSE clone_page(reader[1])
       IN reader \o <<blank_page>>

\* Faulty variant of remove_first_last_pages: a two-page document is not
\* left alone.
remove_first_last_pages_from_two(pages) ==
  LET total_pages == Len(pages) IN
  IF total_pages <= 1
    THEN [reader |-> Some(pages), first |-> None, last |-> None]
    ELSE [reader |-> Some(SubSeq(pages, 2, total_pages - 1)),
          first |-> Some(1), last |-> Some(total_pages)]

remove_first_last_pages(pages) ==
  LET total_pages == Len(pages) IN
  IF total_pages <= 2
    THEN [reader |-> Some(pages), first |-> None, last |-> None]
    ELSE [reader |-> Some(SubSeq(pages, 2, total_pages - 1)),
          first |-> Some(1), last |-> Some(total_pages)]

\* Faulty variant of add_page_watermark: is_rotated is ignored.
add_page_watermark_one_anchor(page, original_page_num, original_filename, is_rotated, fails) ==
  IF fails THEN page
  ELSE [page EXCEPT !.wm = Append(@, [num |-> original_page_num,
                                      file |-> original_filename,
                                      anchor |-> "bottom_right",
                                      at_rot |-> page.rot])]

\* add_page_watermark: at_rot is the /Rotate the page has when the overlay
\* is merged onto it.
add_page_watermark(page, original_page_num, original_filename, is_rotated, fails) ==
  IF fails THEN page
  ELSE [page EXCEPT !.wm = Append(@, [num |-> original_page_num,
                                      file |-> original_filename,
                                      anchor |-> IF is_rotated THEN "top_left"
                                                 ELSE "bottom_right",
                                      at_rot |-> page.rot])]

\* ------------------------------------------------------------- process_pdf
\* Step 0a of process_pdf: the reader to work on and the first page map.
RemovalStep(d, remove_first_last) ==
  LET original_reader == PdfReader(d)
      original_total_pages == Len(original_reader)
      rm == remove_first_last_pages(original_reader)
  IN IF remove_first_last
       THEN IF rm.reader = None
              THEN [reader |-> original_reader,
                    map |-> [i \in 0..(original_total_pages - 1) |-> i + 1],
                    removed_first |-> rm.first, removed_last |-> rm.last]
              ELSE [reader |-> rm.reader[1],
                    map |-> [i \in 0..(Len(rm.reader[1]) - 1) |-> i + 2],
                    removed_first |-> rm.first, removed_last |-> rm.last]
       ELSE [reader |-> original_reader,
             map |-> [i \in 0..(original_total_pages - 1) |-> i + 1],
             removed_first |-> None, removed_last |-> None]

\* Step 0b: the page map after the title page is inserted at index 0.
TitleShiftMap(original_page_map, pages_before_title, total_pages) ==
  [i \in 0..(total_pages - 1) |->
     IF i = 0 THEN 0
     ELSE LET old_index == i - 1 IN
          IF old_index < pages_before_title
            THEN IF old_index \in DOMAIN original_page_map
                   THEN original_page_map[old_index]
                   ELSE old_index + 1
            ELSE 0]

\* Step 0c: the page map after ensure_even_page_count.
PaddedMap(original_page_map, pages_before_even, total_pages) ==
  IF total_pages > pages_before_even
    THEN [i \in 0..(total_pages - 1) |->
            IF i = total_pages - 1 THEN 0 ELSE original_page_map[i]]
    ELSE original_page_map

\* Faulty variant of PagesOrder: the else of the parity test is lost, so every
\* page is also collected as an even page.
PagesOrderNoElse(original_page_map, total_pages, parity) ==
  SelectSeq([j \in 1..total_pages |-> <<j - 1, original_page_map[j - 1]>>],
            LAMBDA t : parity = 0 \/ (t[1] + 1) % 2 = parity)

\* Step 1: the (index, original_page_num) pairs at odd / even positions.
PagesOrder(original_page_map, total_pages, parity) ==
  SelectSeq([j \in 1..total_pages |-> <<j - 1, original_page_map[j - 1]>>],
            LAMBDA t : (t[1] + 1) % 2 = parity)

\* Faulty variant of OddPage: the original_page_num > 0 test is lost.
OddPageWatermarksAll(reader, entry, filename, add_watermarks, wm_fail) ==
  LET page_index == entry[1]
      original_page_num == entry[2]
      page == clone_page(reader[page_index + 1])
  IN IF add_watermarks
       THEN add_page_watermark(page, original_page_num, filename, FALSE,
                               page_index \in wm_fail)
       ELSE page

\* Step 2: one page of the odd output.
OddPage(reader, entry, filename, add_watermarks, wm_fail) ==
  LET page_index == entry[1]
      original_page_num == entry[2]
      page == clone_page(reader[page_index + 1])
  IN IF add_watermarks /\ original_page_num > 0
       THEN add_page_watermark(page, original_page_num, filename, FALSE,
                               page_index \in wm_fail)
       ELSE page

\* Faulty variant of OddWriter: the entries are taken first to last.
OddWriterForward(reader, odd_pages_order, filename, add_watermarks, wm_fail) ==
  [j \in 1..Len(odd_pages_order) |->
     OddPage(reader, odd_pages_order[j], filename, add_watermarks, wm_fail)]

\* Step 2: the odd writer, filled from the last collected entry to the first.
OddWriter(reader, odd_pages_order, filename, add_watermarks, wm_fail) ==
  [j \in 1..Len(odd_pages_order) |->
     OddPage(reader, odd_pages_order[Len(odd_pages_order) - j + 1],
             filename, add_watermarks, wm_fail)]

\* Faulty variant of EvenPage: title and blank pages are turned as well.
EvenPageTurnsAll(reader, entry, filename, add_watermarks, wm_fail) ==
  LET page_index == entry[1]
      original_page_num == entry[2]
      turned == rotate(clone_page(reader[page_index + 1]), HalfTurn)
  IN IF add_watermarks /\ original_page_num > 0
       THEN add_page_watermark(turned, original_page_num, filename, TRUE,
                               page_index \in wm_fail)
       ELSE turned

\* Step 3: one page of the even output.
EvenPage(reader, entry, filename, add_watermarks, wm_fail) ==
  LET page_index == entry[1]
      original_page_num == entry[2]
      page == clone_page(reader[page_index + 1])
      turned == IF original_page_num > 0 THEN rotate(page, HalfTurn) ELSE page
  IN IF add_watermarks /\ original_page_num > 0
       THEN add_page_watermark(turned, original_page_num, filename, TRUE,
                               page_index \in wm_fail)
       ELSE turned

\* Faulty variant of EvenWriter: the entries are taken last to first.
EvenWriterReversed(reader, even_pages_order, filename, add_watermarks, wm_fail) ==
  [j \in 1..Len(even_pages_order) |->
     EvenPage(reader, even_pages_order[Len(even_pages_order) - j + 1],
              filename, add_watermarks, wm_fail)]

EvenWriter(reader, even_pages_order, filename, add_watermarks, wm_fail) ==
  [j \in 1..Len(even_pages_order) |->
     EvenPage(reader, even_pages_order[j], filename, add_watermarks, wm_fail)]

\* The warnings process_pdf and its helpers print to standard output.
Warnings(d, remove_first_last, pages_before_even) ==
  (IF remove_first_last /\ d.n <= 2 THEN {"cannot_remove_first_last"} ELSE {})
  \cup (IF ~d.image_ok THEN {"text_only_title"} ELSE {})
  \cup (IF pages_before_even % 2 = 1 /\ ~d.blank_ok THEN {"cloned_first_page"} ELSE {})

\* The whole of process_pdf on a readable document.
process_pdf(d, add_watermarks, remove_first_last) ==
  LET original_filename == d.name
      original_total_pages == d.n
      step0a == RemovalStep(d, remove_first_last)
      pages_before_title == Len(step0a.reader)
      titled == add_title_page_to_pdf(step0a.reader, original_filename, d.image_ok)
      map0b == TitleShiftMap(step0a.map, pages_before_title, Len(titled))
      pages_before_even == Len(titled)
      reader == ensure_even_page_count(titled, d.blank_ok)
      total_pages == Len(reader)
      original_page_map == PaddedMap(map0b, pages_before_even, total_pages)
      odd_pages_order == PagesOrder(original_page_map, total_pages, 1)
      even_pages_order == PagesOrder(original_page_map, total_pages, 0)
      odd_writer == OddWriter(reader, odd_pages_order, original_filename,
                              add_watermarks, d.wm_fail)
      even_writer == EvenWriter(reader, even_pages_order, original_filename,
                                add_watermarks, d.wm_fail)
      values == [j \in 1..total_pages |-> original_page_map[j - 1]]
  IN [reader |-> reader,
      printed |-> Warnings(d, remove_first_last, pages_before_even),
      pages_before_title |-> pages_before_title,
      pages_before_even |-> pages_before_even,
      original_page_map |-> original_page_map,
      odd_pages_order |-> odd_pages_order,
      even_pages_order |-> even_pages_order,
      odd_writer |-> odd_writer,
      even_writer |-> even_writer,
      page_info |->
        [total_pages |-> total_pages,
         original_total_pages |-> original_total_pages,
         original_sequence |-> sorted(SelectSeq(values, LAMBDA p : p > 0)),
         removed_first_page |-> step0a.removed_first,
         removed_last_page |-> step0a.removed_last,
         has_title_page |-> TRUE,
         odd_pages_count |-> Len(odd_pages_order),
         even_pages_count |-> Len(even_pages_order)]]

\* --------------------------------------------------- split_pdf_into_chunks
\* The name of a chunk file: <base>_part_<i>_of_<N>.pdf.
ChunkName(base_name, i, num_chunks) ==
  <<base_name, "part", i, "of", num_chunks>>

\* Faulty variant of split_pdf_into_chunks: floor instead of ceiling division.
split_pdf_into_chunks_floor(pages, chunk_size, base_name) ==
  IF chunk_size = 0 THEN [status |-> "raised", chunk_paths |-> <<>>, chunks |-> <<>>]
  ELSE
  LET total_pages == Len(pages)
      num_chunks == PyFloorDiv(total_pages, chunk_size)
      count == IF num_chunks > 0 THEN num_chunks ELSE 0
  IN [status |-> "ok",
      chunk_paths |-> [c \in 1..count |-> ChunkName(base_name, c, num_chunks)],
      chunks |-> [c \in 1..count |->
                    SubSeq(pages, (c - 1) * chunk_size + 1,
                           Min((c - 1) * chunk_size + chunk_size, total_pages))]]

\* split_pdf_into_chunks on the pages of the file at pdf_path.  chunk_idx of
\* the code is c - 1; pages start_page..end_page-1 (0-based) are
\* pages[start_page + 1 .. end_page].
split_pdf_into_chunks(pages, chunk_size, base_name) ==
  IF chunk_size = 0 THEN [status |-> "raised", chunk_paths |-> <<>>, chunks |-> <<>>]
  ELSE
  LET total_pages == Len(pages)
      num_chunks == PyFloorDiv(total_pages + chunk_size - 1, chunk_size)
      count == IF num_chunks > 0 THEN num_chunks ELSE 0
  IN [status |-> "ok",
      chunk_paths |-> [c \in 1..count |-> ChunkName(base_name, c, num_chunks)],
      chunks |-> [c \in 1..count |->
                    LET start_page == (c - 1) * chunk_size
                        end_page == Min(start_page + chunk_size, total_pages)
                    IN SubSeq(pages, start_page + 1, end_page)]]

\* -------------------------------------------------------------- the inputs
\* A document: its file name, page count, the /Rotate of its pages, whether
\* it is a readable PDF, whether a blank page can be synthesized for it, the
\* plan indices whose watermark overlay cannot be rendered, whether the
\* title image is found and loads, and whether the title page can be
\* rendered at all.
ValidDocs ==
  [name : Names, n : 0..MaxPages, rot : SrcRotations, valid : {TRUE},
   blank_ok : BOOLEAN, wm_fail : SUBSET (0..(MaxPages + 1)),
   image_ok : BOOLEAN, title_ok : {TRUE}]

InvalidDocs ==
  [name : Names, n : {0}, rot : {0}, valid : {FALSE},
   blank_ok : {TRUE}, wm_fail : {{}}, image_ok : {TRUE}, title_ok : {TRUE}]

\* Readable documents whose title page cannot be rendered.
TitleFailDocs ==
  [name : Names, n : 0..MaxPages, rot : {0}, valid : {TRUE},
   blank_ok : {TRUE}, wm_fail : {{}}, image_ok : {TRUE}, title_ok : {FALSE}]

Docs == ValidDocs \cup InvalidDocs \cup TitleFailDocs

\* process_pdf raises on d: the file is not a PDF (PdfReader raises) or the
\* title page cannot be rendered (nothing catches it).
Fatal(d) == ~d.valid \/ ~d.title_ok

\* The documents of a batch.
BatchDocs ==
  {d \in Docs : d.rot = 0 /\ d.blank_ok /\ d.wm_fail = {} /\ d.image_ok /\ d.title_ok}

BatchInputs ==
  UNION {[1..k -> BatchDocs] : k \in 0..MaxBatch}

ChunkSizes == (-MaxChunkSize)..MaxChunkSize

\* The files of one /upload-multiple request, in request order: at least one.
UploadFiles ==
  UNION {[1..k -> BatchDocs] : k \in 1..MaxBatch}

\* The /upload requests the server handles at the same time (threaded server).
Requests == {1, 2}

\* The documents sent to /upload.
UploadDocs ==
  {d \in BatchDocs : d.valid /\ d.n \in 1..MaxUploadPages}

\* The document handed to a direct call of split_pdf_into_chunks.
ChunkDoc(n) ==
  [name |-> "a.pdf", n |-> n, rot |-> 0, valid |-> TRUE, blank_ok |-> TRUE,
   wm_fail |-> {}, image_ok |-> TRUE, title_ok |-> TRUE]

\* --------------------------------------------------------------- the state
VARIABLES
  pdf,                  \* the current call of process_pdf and its result
  chunk,                \* the current direct call of split_pdf_into_chunks
  pc,                   \* where process_multiple_pdfs is
  input_paths,          \* its documents, in submission order
  options,              \* its add_watermarks and remove_first_last
  file_idx,             \* the number of documents processed so far
  temp_dir,             \* the temporary directory of the call
  all_odd_writers,      \* the odd outputs read back, one per document
  all_even_writers,     \* the even outputs read back, one per document
  combined_page_info,   \* the metadata being assembled
  writers,              \* merged_odd_writer, merged_even_writer, combined_writer
  output_dir,           \* the files the call has written into output_dir
  exc,                  \* an exception is propagating out of the try block
  uploaded,             \* the files of the /upload-multiple request, in order
  up,                   \* each /upload request: its position and its locals
  upload_folder,        \* uploads/: what each file name holds
  out_folder            \* output/: odd_pages.pdf and even_pages_rotated.pdf

vars == <<pdf, chunk, pc, input_paths, options, file_idx, temp_dir,
          all_odd_writers, all_even_writers, combined_page_info, writers,
          output_dir, exc, uploaded, up, upload_folder, out_folder>>

batch_vars == <<pc, input_paths, options, file_idx, temp_dir,
                all_odd_writers, all_even_writers, combined_page_info, writers,
                output_dir, exc, uploaded>>

web_vars == <<up, upload_folder, out_folder>>

NoTempDir == [exists |-> FALSE, entries |-> {}]
NoWriters == [merged_odd |-> <<>>, merged_even |-> <<>>, combined |-> <<>>]
NoOptions == [add_watermarks |-> TRUE, remove_first_last |-> TRUE]
EmptyInfo == [total_pages |-> 0, original_sequence |-> <<>>, files_processed |-> <<>>]
EmptyDir == <<>>
UpStart == [pc |-> "start", file |-> None, add_watermarks |-> TRUE,
            remove_first_last |-> TRUE, odd_writer |-> <<>>, even_writer |-> <<>>,
            response |-> None]
EmptyUploads == [name \in Names |-> None]
EmptyOutput == [odd |-> None, even |-> None]

\* No direct call is running.
NoCall == pdf.status = "idle" /\ chunk.status = "idle" /\ pc = "idle"

Idle == NoCall /\ \A r \in Requests : up[r].pc = "start"

Init ==
  /\ pdf = [status |-> "idle"]
  /\ chunk = [status |-> "idle"]
  /\ pc = "idle"
  /\ input_paths = <<>>
  /\ options = NoOptions
  /\ file_idx = 0
  /\ temp_dir = NoTempDir
  /\ all_odd_writers = <<>>
  /\ all_even_writers = <<>>
  /\ combined_page_info = EmptyInfo
  /\ writers = NoWriters
  /\ output_dir = EmptyDir
  /\ exc = FALSE
  /\ uploaded = <<>>
  /\ up = [r \in Requests |-> UpStart]
  /\ upload_folder = EmptyUploads
  /\ out_folder = EmptyOutput

\* One call of process_pdf (the /upload handler or the command line).
ProcessPdf ==
  /\ Idle
  /\ \E d \in Docs, add_watermarks \in BOOLEAN, remove_first_last \in BOOLEAN :
    pdf' = IF ~Fatal(d)
             THEN [status |-> "done", doc |-> d, add_watermarks |-> add_watermarks,
                   remove_first_last |-> remove_first_last,
                   out |-> process_pdf(d, add_watermarks, remove_first_last)]
             ELSE [status |-> "raised", doc |-> d, add_watermarks |-> add_watermarks,
                   remove_first_last |-> remove_first_last]
  /\ UNCHANGED <<chunk, batch_vars, web_vars>>

\* The caller has consumed the result; the next call may start.
PdfReturn ==
  /\ pdf.status \in {"done", "raised"}
  /\ pdf' = [status |-> "idle"]
  /\ UNCHANGED <<chunk, batch_vars, web_vars>>

\* One direct call of split_pdf_into_chunks.
SplitChunks ==
  /\ Idle
  /\ \E n \in 0..MaxChunkPages, chunk_size \in ChunkSizes :
       LET pages == PdfReader(ChunkDoc(n))
           r == split_pdf_into_chunks(pages, chunk_size, "a")
       IN chunk' = [status |-> IF r.status = "ok" THEN "done" ELSE "raised",
                    pages |-> pages, chunk_size |-> chunk_size,
                    chunk_paths |-> r.chunk_paths, chunks |-> r.chunks]
  /\ UNCHANGED <<pdf, batch_vars, web_vars>>

ChunksReturn ==
  /\ chunk.status \in {"done", "raised"}
  /\ chunk' = [status |-> "idle"]
  /\ UNCHANGED <<pdf, batch_vars, web_vars>>

\* ---------------------------------------------------- process_multiple_pdfs
\* The call starts: tempfile.mkdtemp and the initial values of the try block.
BatchStart ==
  /\ Idle
  /\ \E paths \in BatchInputs, add_watermarks \in BOOLEAN, remove_first_last \in BOOLEAN :
       /\ input_paths' = paths
       /\ options' = [add_watermarks |-> add_watermarks,
                      remove_first_last |-> remove_first_last]
  /\ temp_dir' = [exists |-> TRUE, entries |-> {}]
  /\ pc' = "loop"
  /\ file_idx' = 0
  /\ all_odd_writers' = <<>>
  /\ all_even_writers' = <<>>
  /\ combined_page_info' = EmptyInfo
  /\ writers' = NoWriters
  /\ output_dir' = EmptyDir
  /\ exc' = FALSE
  /\ uploaded' = <<>>
  /\ UNCHANGED <<pdf, chunk, web_vars>>

\* What process_multiple_pdfs finds at saved_paths: every file of the request
\* was saved to uploads/<filename> in request order before the call, so a path
\* holds the last file saved under its name.
saved_paths(files) ==
  [i \in 1..Len(files) |->
     LET last == CHOOSE j \in 1..Len(files) :
                   /\ files[j].name = files[i].name
                   /\ \A k \in (j + 1)..Len(files) : files[k].name # files[i].name
     IN files[last]]

\* The /upload-multiple handler up to the start of process_multiple_pdfs: the
\* files are saved one after the other, then the batch starts on their paths.
UploadMultiple ==
  /\ Idle
  /\ \E files \in UploadFiles, add_watermarks \in BOOLEAN, remove_first_last \in BOOLEAN :
       /\ uploaded' = files
       /\ input_paths' = saved_paths(files)
       /\ options' = [add_watermarks |-> add_watermarks,
                      remove_first_last |-> remove_first_last]
  /\ temp_dir' = [exists |-> TRUE, entries |-> {}]
  /\ pc' = "loop"
  /\ file_idx' = 0
  /\ all_odd_writers' = <<>>
  /\ all_even_writers' = <<>>
  /\ combined_page_info' = EmptyInfo
  /\ writers' = NoWriters
  /\ output_dir' = EmptyDir
  /\ exc' = FALSE
  /\ UNCHANGED <<pdf, chunk, web_vars>>

\* The try block is left by an exception.
Raise ==
  /\ pc' = "finally"
  /\ exc' = TRUE

\* combined_page_info after one more document.
InfoAfter(info, d, page_info) ==
  LET page_offset == info.total_pages IN
  [info EXCEPT
     !.total_pages = @ + page_info.total_pages,
     !.original_sequence =
        @ \o [j \in 1..Len(page_info.original_sequence) |->
                page_info.original_sequence[j] + page_offset],
     !.files_processed =
        Append(@, [filename |-> d.name,
                   total_pages |-> page_info.total_pages,
                   odd_pages |-> page_info.odd_pages_count,
                   even_pages |-> page_info.even_pages_count])]

\* Faulty variant of BatchProcessFile: a document that cannot be processed
\* is skipped and the loop goes on.
BatchProcessFileSkips ==
  /\ pc = "loop"
  /\ file_idx < Len(input_paths)
  /\ LET d == input_paths[file_idx + 1] IN
     /\ temp_dir' = [temp_dir EXCEPT !.entries = @ \cup {file_idx}]
     /\ file_idx' = file_idx + 1
     /\ IF Fatal(d)
          THEN UNCHANGED <<pc, exc, all_odd_writers, all_even_writers, combined_page_info>>
          ELSE LET r == process_pdf(d, options.add_watermarks, options.remove_first_last) IN
               /\ combined_page_info' = InfoAfter(combined_page_info, d, r.page_info)
               /\ all_odd_writers' = Append(all_odd_writers, r.odd_writer)
               /\ all_even_writers' = Append(all_even_writers, r.even_writer)
               /\ UNCHANGED <<pc, exc>>
  /\ UNCHANGED <<pdf, chunk, web_vars, uploaded, input_paths, options, writers, output_dir>>

\* One iteration of the loop over input_paths: the document is processed
\* into its own directory under temp_dir and its two outputs are read back.
BatchProcessFile ==
  /\ pc = "loop"
  /\ file_idx < Len(input_paths)
  /\ LET d == input_paths[file_idx + 1] IN
     /\ temp_dir' = [temp_dir EXCEPT !.entries = @ \cup {file_idx}]
     /\ \E read_ok \in BOOLEAN :
          IF Fatal(d) \/ ~read_ok
            THEN /\ Raise
                 /\ UNCHANGED <<file_idx, all_odd_writers, all_even_writers,
                                combined_page_info>>
            ELSE LET r == process_pdf(d, options.add_watermarks, options.remove_first_last) IN
                 /\ combined_page_info' = InfoAfter(combined_page_info, d, r.page_info)
                 /\ all_odd_writers' = Append(all_odd_writers, r.odd_writer)
                 /\ all_even_writers' = Append(all_even_writers, r.even_writer)
                 /\ file_idx' = file_idx + 1
                 /\ UNCHANGED <<pc, exc>>
  /\ UNCHANGED <<pdf, chunk, web_vars, uploaded, input_paths, options, writers, output_dir>>

\* Faulty variant of Combine: the even pages are added first.
CombineEvenFirst(merged_odd, merged_even) ==
  merged_even \o merged_odd

\* combined_writer: all odd pages first, then all even pages.
Combine(merged_odd, merged_even) ==
  merged_odd \o merged_even

\* The loop is over: the odd outputs are merged, the even outputs are
\* merged, and the two are combined.
BatchMerge ==
  /\ pc = "loop"
  /\ file_idx = Len(input_paths)
  /\ \E ok \in BOOLEAN :
       IF ok
         THEN LET merged_odd == Concat(all_odd_writers)
                  merged_even == Concat(all_even_writers)
              IN /\ writers' = [merged_odd |-> merged_odd, merged_even |-> merged_even,
                                combined |-> Combine(merged_odd, merged_even)]
                 /\ pc' = "save"
                 /\ UNCHANGED exc
         ELSE Raise /\ UNCHANGED writers
  /\ UNCHANGED <<pdf, chunk, web_vars, uploaded, input_paths, options, file_idx, temp_dir,
                 all_odd_writers, all_even_writers, combined_page_info, output_dir>>

\* merged_combined.pdf is written and the counts are recorded.
BatchSave ==
  /\ pc = "save"
  /\ \E ok \in BOOLEAN :
       IF ok
         THEN /\ output_dir' = Append(output_dir,
                                 [name |-> "merged_combined.pdf", pages |-> writers.combined])
              /\ combined_page_info' =
                   [total_pages |-> combined_page_info.total_pages,
                    original_sequence |-> combined_page_info.original_sequence,
                    files_processed |-> combined_page_info.files_processed,
                    combined_output |-> "merged_combined.pdf",
                    odd_pages_count |-> Len(writers.merged_odd),
                    even_pages_count |-> Len(writers.merged_even),
                    total_combined_pages |-> Len(writers.combined)]
              /\ pc' = "chunk"
              /\ UNCHANGED exc
         ELSE Raise /\ UNCHANGED <<output_dir, combined_page_info>>
  /\ UNCHANGED <<pdf, chunk, web_vars, uploaded, input_paths, options, file_idx, temp_dir,
                 all_odd_writers, all_even_writers, writers>>

\* The combined file is split into chunks of 20 pages and the call returns.
BatchChunk ==
  /\ pc = "chunk"
  /\ \E ok \in BOOLEAN :
       LET r == split_pdf_into_chunks(output_dir[1].pages, BatchChunkSize, "merged_combined") IN
       IF ok /\ r.status = "ok"
         THEN /\ output_dir' = output_dir \o
                   [c \in 1..Len(r.chunks) |->
                      [name |-> r.chunk_paths[c], pages |-> r.chunks[c]]]
              /\ pc' = "finally"
              /\ UNCHANGED exc
         ELSE Raise /\ UNCHANGED output_dir
  /\ UNCHANGED <<pdf, chunk, web_vars, uploaded, input_paths, options, file_idx, temp_dir,
                 all_odd_writers, all_even_writers, combined_page_info, writers>>

\* Faulty variant of BatchFinally: the directory is removed at the end of
\* the try block only, not when an exception is propagating.
BatchCleanupOnSuccessOnly ==
  /\ pc = "finally"
  /\ temp_dir' = IF temp_dir.exists /\ ~exc THEN NoTempDir ELSE temp_dir
  /\ pc' = IF exc THEN "raised" ELSE "returned"
  /\ UNCHANGED <<pdf, chunk, web_vars, uploaded, input_paths, options, file_idx, all_odd_writers,
                 all_even_writers, combined_page_info, writers, output_dir, exc>>

\* The finally block: the temporary directory is removed if it exists; then
\* the call returns or the exception reaches the caller.
BatchFinally ==
  /\ pc = "finally"
  /\ temp_dir' = IF temp_dir.exists THEN NoTempDir ELSE temp_dir
  /\ pc' = IF exc THEN "raised" ELSE "returned"
  /\ UNCHANGED <<pdf, chunk, web_vars, uploaded, input_paths, options, file_idx, all_odd_writers,
                 all_even_writers, combined_page_info, writers, output_dir, exc>>

\* The call has ended and its caller has taken the outcome.
BatchEnd ==
  /\ pc \in {"returned", "raised"}
  /\ pc' = "idle"
  /\ input_paths' = <<>>
  /\ options' = NoOptions
  /\ file_idx' = 0
  /\ temp_dir' = NoTempDir
  /\ all_odd_writers' = <<>>
  /\ all_even_writers' = <<>>
  /\ combined_page_info' = EmptyInfo
  /\ writers' = NoWriters
  /\ output_dir' = EmptyDir
  /\ exc' = FALSE
  /\ uploaded' = <<>>
  /\ UNCHANGED <<pdf, chunk, web_vars>>

\* ------------------------------------------------------ the /upload handler
\* file.save(filepath): the upload is stored under its own file name.
UploadSave(r) ==
  /\ NoCall
  /\ up[r].pc = "start"
  /\ \E d \in UploadDocs, add_watermarks \in BOOLEAN, remove_first_last \in BOOLEAN :
       /\ upload_folder' = [upload_folder EXCEPT ![d.name] = Some(d)]
       /\ up' = [up EXCEPT ![r] = [@ EXCEPT !.pc = "saved", !.file = Some(d),
                                            !.add_watermarks = add_watermarks,
                                            !.remove_first_last = remove_first_last]]
  /\ UNCHANGED <<pdf, chunk, batch_vars, out_folder>>

\* process_pdf reads what uploads/<filename> holds now and builds its two
\* writers in memory.
UploadProcess(r) ==
  /\ up[r].pc = "saved"
  /\ LET found == upload_folder[up[r].file[1].name][1]
         out == process_pdf(found, up[r].add_watermarks, up[r].remove_first_last)
     IN up' = [up EXCEPT ![r] = [@ EXCEPT !.pc = "processed",
                                          !.odd_writer = out.odd_writer,
                                          !.even_writer = out.even_writer]]
  /\ UNCHANGED <<pdf, chunk, batch_vars, upload_folder, out_folder>>

\* odd_writer is written to output/odd_pages.pdf.
UploadWriteOdd(r) ==
  /\ up[r].pc = "processed"
  /\ out_folder' = [out_folder EXCEPT !.odd = Some(up[r].odd_writer)]
  /\ up' = [up EXCEPT ![r] = [@ EXCEPT !.pc = "odd_written"]]
  /\ UNCHANGED <<pdf, chunk, batch_vars, upload_folder>>

\* even_writer is written to output/even_pages_rotated.pdf.
UploadWriteEven(r) ==
  /\ up[r].pc = "odd_written"
  /\ out_folder' = [out_folder EXCEPT !.even = Some(up[r].even_writer)]
  /\ up' = [up EXCEPT ![r] = [@ EXCEPT !.pc = "even_written"]]
  /\ UNCHANGED <<pdf, chunk, batch_vars, upload_folder>>

\* The response is built: it names the two output files; response keeps what
\* those files hold at that moment.
UploadRespond(r) ==
  /\ up[r].pc = "even_written"
  /\ up' = [up EXCEPT ![r] = [@ EXCEPT !.pc = "responded",
                                       !.response = Some(out_folder)]]
  /\ UNCHANGED <<pdf, chunk, batch_vars, upload_folder, out_folder>>

\* Every request that was started has been answered; the next requests find
\* the folders as they were at first.
UploadsEnd ==
  /\ \A r \in Requests : up[r].pc \in {"start", "responded"}
  /\ \E r \in Requests : up[r].pc = "responded"
  /\ up' = [r \in Requests |-> UpStart]
  /\ upload_folder' = EmptyUploads
  /\ out_folder' = EmptyOutput
  /\ UNCHANGED <<pdf, chunk, batch_vars>>

\* ------------------------------------------------- process_pdf: properties
Done == pdf.status = "done"
Out == pdf.out
Plan == pdf.out.reader
PlanMap == pdf.out.original_page_map
OddOut == pdf.out.odd_writer
EvenOut == pdf.out.even_writer

\* What a page shows, whatever was done to it afterwards.
Core(page) == [kind |-> page.kind, doc |-> page.doc, idx |-> page.idx]

\* 0-based plan index of the j-th page of the odd / even output, were the
\* odd output the reverse of the odd plan positions and the even output the
\* even plan positions in order.
OddPlanIndex(j) == 2 * (Len(OddOut) - j)
EvenPlanIndex(j) == 2 * j - 1

\* The true source indices of the source pages of a page sequence.
SourceIdx(pages) ==
  SelectSeq([j \in 1..Len(pages) |-> pages[j].idx], LAMBDA x : x > 0)

\* The page numbers the watermarks of a page sequence show, in order.
ShownNumbers(pages) ==
  Concat([j \in 1..Len(pages) |->
            [k \in 1..Len(pages[j].wm) |-> pages[j].wm[k].num]])

\* The non-synthetic originalPageNumbers at the plan positions of a parity.
NumbersAt(parity) ==
  SelectSeq([j \in 1..(Len(Plan) \div 2) |-> PlanMap[2 * j - 1 - parity]],
            LAMBDA x : x > 0)

OddPlanPages ==
  [j \in 1..((Len(Plan) + 1) \div 2) |-> Plan[2 * j - 1]]

\* C1: the record at 1-indexed plan position p goes to the odd output iff p
\* is odd; the odd output is the odd plan positions in exact reverse order
\* (so its source page numbers, reversed, are those at the odd plan
\* positions in plan order) and the even output is the even plan positions
\* in forward order.
C1_PartitionAndReversal ==
  Done =>
    /\ Len(OddOut) = (Len(Plan) + 1) \div 2
    /\ Len(EvenOut) = Len(Plan) \div 2
    /\ \A j \in 1..Len(OddOut) : Core(OddOut[j]) = Core(Plan[OddPlanIndex(j) + 1])
    /\ \A j \in 1..Len(EvenOut) : Core(EvenOut[j]) = Core(Plan[EvenPlanIndex(j) + 1])
    /\ Reverse(SourceIdx(OddOut)) = SourceIdx(OddPlanPages)
    /\ (pdf.add_watermarks /\ pdf.doc.wm_fail = {}) =>
         /\ Reverse(ShownNumbers(OddOut)) = NumbersAt(1)
         /\ ShownNumbers(EvenOut) = NumbersAt(0)

C1_Witness ==
  /\ Done
  /\ pdf.remove_first_last
  /\ Len(OddOut) = 2
  /\ OddOut[1].kind = "src"
  /\ OddOut[2].kind = "title"
  /\ EvenOut[1].kind = "src"

\* C2: every non-synthetic page of the even output is turned by exactly 180
\* degrees from its orientation in the plan, every synthetic page of the
\* even output is not turned, and no page of the odd output is turned.
C2_RotationLaw ==
  Done =>
    /\ Len(OddOut) + Len(EvenOut) = Len(Plan)
    /\ \A j \in 1..Len(EvenOut) :
         LET i == EvenPlanIndex(j) IN
         IF PlanMap[i] > 0
           THEN EvenOut[j].rot = (Plan[i + 1].rot + 180) % 360
           ELSE EvenOut[j].rot = Plan[i + 1].rot
    /\ \A j \in 1..Len(OddOut) : OddOut[j].rot = Plan[OddPlanIndex(j) + 1].rot

C2_Witness ==
  /\ Done
  /\ pdf.doc.rot = 90
  /\ Len(EvenOut) = 2
  /\ EvenOut[1].rot = 270
  /\ EvenOut[2].kind = "blank"
  /\ EvenOut[2].rot = 0
  /\ OddOut[1].rot = 90

\* C3: the assembled plan has an even number of pages and at most one
\* padding page was appended to reach it.
C3_EvenPlan ==
  Done =>
    /\ Len(Plan) % 2 = 0
    /\ Len(Plan) - Out.pages_before_even \in {0, 1}
    /\ Out.pages_before_even = Out.pages_before_title + 1

C3_Witness ==
  /\ Done
  /\ pdf.doc.n = 0
  /\ Len(Plan) = 2
  /\ Out.pages_before_even = 1

OddSlots == {Out.odd_pages_order[j][1] : j \in 1..Len(Out.odd_pages_order)}
EvenSlots == {Out.even_pages_order[j][1] : j \in 1..Len(Out.even_pages_order)}

\* C4: the odd and even outputs are disjoint, hold every plan slot exactly
\* once, have the same length len(plan)/2, and the reported counts are
\* these lengths and sum to the reported total_pages.
C4_StreamsPartitionPlan ==
  Done =>
    /\ OddSlots \cap EvenSlots = {}
    /\ OddSlots \cup EvenSlots = 0..(Len(Plan) - 1)
    /\ Cardinality(OddSlots) = Len(OddOut)
    /\ Cardinality(EvenSlots) = Len(EvenOut)
    /\ Len(OddOut) + Len(EvenOut) = Len(Plan)
    /\ Len(OddOut) = Len(EvenOut)
    /\ 2 * Len(OddOut) = Len(Plan)
    /\ Out.page_info.odd_pages_count = Len(OddOut)
    /\ Out.page_info.even_pages_count = Len(EvenOut)
    /\ Out.page_info.odd_pages_count + Out.page_info.even_pages_count
         = Out.page_info.total_pages
    /\ Out.page_info.total_pages = Len(Plan)

C4_Witness ==
  /\ Done
  /\ pdf.doc.n = 3
  /\ ~pdf.remove_first_last
  /\ Len(OddOut) = 2
  /\ Len(EvenOut) = 2

StrictlyIncreasing(s) == \A j \in 1..(Len(s) - 1) : s[j] < s[j + 1]

PlanNumbers ==
  SelectSeq([j \in 1..Len(Plan) |-> PlanMap[j - 1]], LAMBDA x : x > 0)

WatermarkShowsSourceIndex(pages) ==
  \A j \in 1..Len(pages) : \A k \in 1..Len(pages[j].wm) :
    pages[j].wm[k].num = pages[j].idx

\* C5: every non-synthetic plan record's originalPageNumber is the 1-based
\* index the page has in the source document, also when removal is
\* requested and skipped, so the plan's numbers and the reported
\* original_sequence are a strictly increasing subsequence of 1..n.
C5_OriginalNumbersAreSourceIndices ==
  Done =>
    /\ \A i \in 0..(Len(Plan) - 1) : PlanMap[i] > 0 => PlanMap[i] = Plan[i + 1].idx
    /\ StrictlyIncreasing(PlanNumbers)
    /\ \A j \in 1..Len(PlanNumbers) : PlanNumbers[j] \in 1..pdf.doc.n
    /\ Out.page_info.original_sequence = PlanNumbers
    /\ WatermarkShowsSourceIndex(OddOut)
    /\ WatermarkShowsSourceIndex(EvenOut)

\* The number a plan record carries for the j-th page of each output.
OddNumber(j) == PlanMap[OddPlanIndex(j)]
EvenNumber(j) == PlanMap[EvenPlanIndex(j)]

WatermarkedAsClaimed(page, number, enabled) ==
  IF enabled /\ number > 0
    THEN Len(page.wm) = 1 /\ page.wm[1].num = number
    ELSE page.wm = <<>>

\* C6 as stated: no synthetic page carries a watermark; with watermarks
\* enabled every non-synthetic output page carries exactly one, showing its
\* originalPageNumber; with watermarks disabled no page carries one.
C6_EveryRealPageWatermarked ==
  Done =>
    /\ \A j \in 1..Len(OddOut) :
         WatermarkedAsClaimed(OddOut[j], OddNumber(j), pdf.add_watermarks)
    /\ \A j \in 1..Len(EvenOut) :
         WatermarkedAsClaimed(EvenOut[j], EvenNumber(j), pdf.add_watermarks)

\* C6 as amended: no synthetic page carries a watermark; with watermarks
\* enabled every non-synthetic output page whose overlay was rendered
\* carries exactly one watermark showing its originalPageNumber, and a page
\* whose overlay could not be rendered carries none; with watermarks
\* disabled no page carries one.
C6_WatermarkExclusion ==
  Done =>
    /\ \A j \in 1..Len(OddOut) :
         WatermarkedAsClaimed(OddOut[j], OddNumber(j),
           pdf.add_watermarks /\ OddPlanIndex(j) \notin pdf.doc.wm_fail)
    /\ \A j \in 1..Len(EvenOut) :
         WatermarkedAsClaimed(EvenOut[j], EvenNumber(j),
           pdf.add_watermarks /\ EvenPlanIndex(j) \notin pdf.doc.wm_fail)

C6_Witness ==
  /\ Done
  /\ pdf.add_watermarks
  /\ pdf.doc.wm_fail = {2}
  /\ Len(OddOut) = 2
  /\ OddOut[1].kind = "src"
  /\ OddOut[1].wm = <<>>
  /\ OddOut[2].kind = "title"
  /\ OddOut[2].wm = <<>>
  /\ Len(EvenOut[1].wm) = 1
  /\ EvenOut[2].kind \in {"blank", "title"}
  /\ EvenOut[2].wm = <<>>


\* ---------------------------------------- split_pdf_into_chunks: properties
\* ceil(n / k) for k >= 1, by its defining inequalities.
CeilDiv(n, k) == CHOOSE q \in 0..n : q * k >= n /\ (q - 1) * k < n

ChunkLens == [c \in 1..Len(chunk.chunks) |-> Len(chunk.chunks[c])]

\* C7: for N >= 0 pages and chunkSize >= 1 there are exactly
\* ceil(N / chunkSize) chunks; the chunks concatenated in order are the
\* document's page sequence; the chunk page counts sum to N; every chunk but
\* the last has chunkSize pages and the last has between 1 and chunkSize.
C7_ChunkingComplete ==
  (chunk.status = "done" /\ chunk.chunk_size >= 1) =>
    /\ Len(chunk.chunks) = CeilDiv(Len(chunk.pages), chunk.chunk_size)
    /\ Len(chunk.chunk_paths) = Len(chunk.chunks)
    /\ Concat(chunk.chunks) = chunk.pages
    /\ SumSeq(ChunkLens) = Len(chunk.pages)
    /\ \A c \in 1..(Len(chunk.chunks) - 1) : ChunkLens[c] = chunk.chunk_size
    /\ Len(chunk.chunks) > 0 =>
         ChunkLens[Len(chunk.chunks)] \in 1..chunk.chunk_size

C7_Witness ==
  /\ chunk.status = "done"
  /\ Len(chunk.pages) = 7
  /\ chunk.chunk_size = 3
  /\ Len(chunk.chunks) = 3
  /\ Len(chunk.chunks[3]) = 1

\* ---------------------------------------- process_multiple_pdfs: properties
\* What process_pdf makes of the i-th document of the batch.
PerDocument(i) ==
  process_pdf(input_paths[i], options.add_watermarks, options.remove_first_last)

PerDocumentOdd == [i \in 1..Len(input_paths) |-> PerDocument(i).odd_writer]
PerDocumentEven == [i \in 1..Len(input_paths) |-> PerDocument(i).even_writer]
PerDocumentPlanLen == [i \in 1..Len(input_paths) |-> Len(PerDocument(i).reader)]

CombinedWritten ==
  \E f \in 1..Len(output_dir) : output_dir[f].name = "merged_combined.pdf"

CombinedFile ==
  output_dir[CHOOSE f \in 1..Len(output_dir) : output_dir[f].name = "merged_combined.pdf"]

\* C8: the combined document is the odd streams of documents 1..k in
\* submission order, each contiguous, followed by the even streams of
\* documents 1..k in submission order; the merged odd and even lengths are
\* the sums of the per-document lengths and total_combined_pages is the sum
\* of the per-document plan lengths.
C8_CombinedIsOddsThenEvens ==
  CombinedWritten =>
    /\ CombinedFile.pages = Concat(PerDocumentOdd) \o Concat(PerDocumentEven)
    /\ combined_page_info.odd_pages_count
         = SumSeq([i \in 1..Len(input_paths) |-> Len(PerDocumentOdd[i])])
    /\ combined_page_info.even_pages_count
         = SumSeq([i \in 1..Len(input_paths) |-> Len(PerDocumentEven[i])])
    /\ combined_page_info.total_combined_pages = SumSeq(PerDocumentPlanLen)
    /\ combined_page_info.total_combined_pages = Len(CombinedFile.pages)

C8_Witness ==
  /\ pc = "returned"
  /\ CombinedWritten
  /\ Len(input_paths) = 2
  /\ input_paths[1].name = "b.pdf"
  /\ input_paths[1].n = 3
  /\ input_paths[2].name = "a.pdf"
  /\ input_paths[2].n = 1
  /\ ~options.remove_first_last
  /\ Len(CombinedFile.pages) = 6
  /\ CombinedFile.pages[2].doc = "b.pdf"
  /\ CombinedFile.pages[3].doc = "a.pdf"
  /\ CombinedFile.pages[4].doc = "b.pdf"

SomeDocumentFails ==
  \E i \in 1..Len(input_paths) : ~input_paths[i].valid

\* C9: if processing fails for any one document of the batch, the call
\* fails as a whole -- it never returns a result, the exception reaches the
\* caller -- and it writes neither merged_combined.pdf nor any chunk file.
C9_FailedDocumentAbortsBatch ==
  SomeDocumentFails =>
    /\ pc \in {"loop", "finally", "raised"}
    /\ pc \in {"finally", "raised"} => exc
    /\ output_dir = EmptyDir
    /\ \A i \in 1..file_idx : input_paths[i].valid

C9_Witness ==
  /\ pc = "raised"
  /\ exc
  /\ Len(input_paths) = 2
  /\ input_paths[1].valid
  /\ ~input_paths[2].valid
  /\ file_idx = 1
  /\ Len(all_odd_writers) = 1
  /\ output_dir = EmptyDir

\* C10: once a batch call has ended, by returning or by failing at any
\* step, the temporary directory created for it no longer exists.
C10_TempDirReclaimed ==
  pc \in {"returned", "raised"} =>
    /\ ~temp_dir.exists
    /\ temp_dir.entries = {}

C10_Witness ==
  /\ pc = "raised"
  /\ exc
  /\ file_idx = 2
  /\ CombinedWritten
  /\ Len(output_dir) = 1
  /\ ~temp_dir.exists

\* ------------------------------------ process_pdf: removal, plan, overlays
Info == pdf.out.page_info
Called == pdf.status \in {"done", "raised"}
DocPages == pdf.doc.n

\* The sequence a, a+1, ..., b.
Range(a, b) == [j \in 1..(b - a + 1) |-> a + j - 1]

TitleKinds == {"title", "title_text"}

\* The last page of the plan was appended by ensure_even_page_count.
Padded == Len(Plan) > Out.pages_before_even

\* C11: removal requested on a document of 2 or fewer pages does not fail,
\* keeps every source page in source order and reports removed_first_page
\* and removed_last_page as absent; on more than 2 pages exactly source page
\* 1 and the last source page are dropped and reported as 1 and n.
C11_RemovalOrSkip ==
  (Called /\ pdf.remove_first_last /\ ~Fatal(pdf.doc)) =>
    /\ Done
    /\ IF DocPages <= 2
         THEN /\ SourceIdx(Plan) = Range(1, DocPages)
              /\ Info.removed_first_page = None
              /\ Info.removed_last_page = None
         ELSE /\ SourceIdx(Plan) = Range(2, DocPages - 1)
              /\ Info.removed_first_page = Some(1)
              /\ Info.removed_last_page = Some(DocPages)

C11_Witness ==
  /\ Done
  /\ pdf.remove_first_last
  /\ DocPages = 2
  /\ SourceIdx(Plan) = <<1, 2>>
  /\ Info.removed_first_page = None
  /\ Info.removed_last_page = None
  /\ "cannot_remove_first_last" \in Out.printed

\* C12: split_pdf_into_chunks rejects every chunkSize <= 0 with an error and
\* never returns a chunk list for it.
C12_NonPositiveChunkSizeRejected ==
  (chunk.status \in {"done", "raised"} /\ chunk.chunk_size <= 0) =>
    chunk.status = "raised"

\* The page_info the same call returns when a degraded condition is absent.
InfoWithImage ==
  process_pdf([pdf.doc EXCEPT !.image_ok = TRUE],
              pdf.add_watermarks, pdf.remove_first_last).page_info

InfoWithBlank ==
  process_pdf([pdf.doc EXCEPT !.blank_ok = TRUE],
              pdf.add_watermarks, pdf.remove_first_last).page_info

\* C13: no degraded condition is fatal and each one met shows in the
\* returned result: a skipped removal as absent removed pages, a text-only
\* title and a substitute blank page as a result that differs from the
\* result of the same call without the condition.
C13_DegradationsSurfaced ==
  (Called /\ ~Fatal(pdf.doc)) =>
    /\ Done
    /\ (pdf.remove_first_last /\ DocPages <= 2) =>
         (Info.removed_first_page = None /\ Info.removed_last_page = None)
    /\ ~pdf.doc.image_ok => Info # InfoWithImage
    /\ (Padded /\ ~pdf.doc.blank_ok) => Info # InfoWithBlank

\* What process_pdf returns for the same call when every overlay renders.
CleanRun ==
  process_pdf([pdf.doc EXCEPT !.wm_fail = {}, !.title_ok = TRUE],
              pdf.add_watermarks, pdf.remove_first_last)

WithoutOverlay(page) == [page EXCEPT !.wm = <<>>]

\* C14: a watermark or title overlay that cannot be rendered does not abort
\* the document: the page is emitted without the overlay, the other pages
\* are processed as usual and both streams keep their lengths.
C14_OverlayFailureNotFatal ==
  (Called /\ pdf.doc.valid) =>
    /\ Done
    /\ Len(OddOut) = Len(CleanRun.odd_writer)
    /\ Len(EvenOut) = Len(CleanRun.even_writer)
    /\ \A j \in 1..Len(OddOut) :
         OddOut[j] = IF OddPlanIndex(j) \in pdf.doc.wm_fail
                       THEN WithoutOverlay(CleanRun.odd_writer[j])
                       ELSE CleanRun.odd_writer[j]
    /\ \A j \in 1..Len(EvenOut) :
         EvenOut[j] = IF EvenPlanIndex(j) \in pdf.doc.wm_fail
                        THEN WithoutOverlay(CleanRun.even_writer[j])
                        ELSE CleanRun.even_writer[j]

PageIdx(pages) == [j \in 1..Len(pages) |-> pages[j].idx]

\* C15: the plan is one title page, then source pages 2..n-1 when removal
\* is set and n > 2, otherwise source pages 1..n, then exactly one padding
\* page iff the count so far is odd, which is iff n is even.
C15_PlanComposition ==
  Done =>
    LET removal == pdf.remove_first_last /\ DocPages > 2
        lo == IF removal THEN 2 ELSE 1
        hi == IF removal THEN DocPages - 1 ELSE DocPages
        kept == hi - lo + 1
    IN /\ Plan[1].kind \in TitleKinds
       /\ Plan[1].idx = 0
       /\ \A j \in 1..kept : Plan[1 + j].kind = "src" /\ Plan[1 + j].idx = lo + j - 1
       /\ Out.pages_before_even = 1 + kept
       /\ Padded <=> (1 + kept) % 2 = 1
       /\ Padded <=> DocPages % 2 = 0
       /\ Len(Plan) = 1 + kept + (IF Padded THEN 1 ELSE 0)
       /\ Padded => (Plan[Len(Plan)].kind # "src" /\ PlanMap[Len(Plan) - 1] = 0)

C15_Witness ==
  /\ Done
  /\ DocPages = 5
  /\ pdf.remove_first_last
  /\ PageIdx(Plan) = <<0, 2, 3, 4>>
  /\ PageIdx(OddOut) = <<3, 0>>
  /\ PageIdx(EvenOut) = <<2, 4>>

\* C16: every watermark is merged after the page's rotation step, with the
\* anchor of the page's final rotation: top-left on the turned pages of the
\* even output, bottom-right on the pages of the odd output, never the
\* other way round.
C16_AnchorMatchesRotation ==
  Done =>
    /\ \A j \in 1..Len(OddOut) : \A k \in 1..Len(OddOut[j].wm) :
         /\ OddOut[j].rot = Plan[OddPlanIndex(j) + 1].rot
         /\ OddOut[j].wm[k].at_rot = OddOut[j].rot
         /\ OddOut[j].wm[k].anchor = "bottom_right"
    /\ \A j \in 1..Len(EvenOut) : \A k \in 1..Len(EvenOut[j].wm) :
         /\ EvenOut[j].rot = (Plan[EvenPlanIndex(j) + 1].rot + HalfTurn) % 360
         /\ EvenOut[j].wm[k].at_rot = EvenOut[j].rot
         /\ EvenOut[j].wm[k].anchor = "top_left"

C16_Witness ==
  /\ Done
  /\ pdf.add_watermarks
  /\ pdf.doc.rot = 90
  /\ Len(OddOut) = 2
  /\ Len(OddOut[1].wm) = 1
  /\ OddOut[1].wm[1].anchor = "bottom_right"
  /\ Len(EvenOut[1].wm) = 1
  /\ EvenOut[1].wm[1].anchor = "top_left"
  /\ EvenOut[1].wm[1].at_rot = 270

FallbackUsed == Done /\ Padded /\ ~pdf.doc.blank_ok

PaddingIsSyntheticAndUntouched ==
  /\ PlanMap[Len(Plan) - 1] = 0
  /\ EvenOut[Len(EvenOut)] = Plan[Len(Plan)]
  /\ EvenOut[Len(EvenOut)].rot = 0
  /\ EvenOut[Len(EvenOut)].wm = <<>>

\* C17 as stated: when blank-page synthesis fails, the padding page is a
\* clone of the first source page, recorded as synthetic, neither turned
\* nor watermarked.
C17_FallbackClonesFirstSourcePage ==
  FallbackUsed =>
    /\ Plan[Len(Plan)].kind = "src"
    /\ PaddingIsSyntheticAndUntouched

\* C17 as amended: when blank-page synthesis fails, the padding page is a
\* clone of the first page of the document as assembled so far, which is
\* the title page; it is recorded as synthetic, neither turned nor
\* watermarked.
C17_FallbackClonesTitlePage ==
  FallbackUsed =>
    /\ Plan[1].kind \in TitleKinds
    /\ Plan[Len(Plan)] = Plan[1]
    /\ PaddingIsSyntheticAndUntouched

C17_Witness ==
  /\ FallbackUsed
  /\ DocPages = 2
  /\ pdf.add_watermarks
  /\ Len(Plan) = 4
  /\ Plan[2].kind = "src"
  /\ Plan[4].kind = "title"
  /\ EvenOut[2].kind = "title"
  /\ "cloned_first_page" \in Out.printed

SyntheticSlots == {i \in 0..(Len(Plan) - 1) : PlanMap[i] = 0}

\* C18: the title page is at plan position 1 and is the last page of the
\* odd output; the padding page, when there is one, is at the last plan
\* position, which is even, and is the last page of the even output; no
\* other plan record is synthetic.
C18_SyntheticPagesAtTheEnds ==
  Done =>
    /\ Plan[1].kind \in TitleKinds
    /\ OddOut[Len(OddOut)] = Plan[1]
    /\ Padded =>
         /\ Len(Plan) % 2 = 0
         /\ Plan[Len(Plan)].kind # "src"
         /\ Core(EvenOut[Len(EvenOut)]) = Core(Plan[Len(Plan)])
    /\ SyntheticSlots = {0} \cup (IF Padded THEN {Len(Plan) - 1} ELSE {})
    /\ \A i \in 0..(Len(Plan) - 1) : (i \in SyntheticSlots) <=> Plan[i + 1].kind # "src"

C18_Witness ==
  /\ Done
  /\ DocPages = 4
  /\ ~pdf.remove_first_last
  /\ Len(Plan) = 6
  /\ OddOut[3].kind = "title_text"
  /\ EvenOut[3].kind = "blank"
  /\ EvenOut[1].kind = "src"

\* C19: a successful /upload response refers to an odd and an even output
\* file that both hold the pages of that request's own upload, whatever the
\* other request does meanwhile.
C19_ResponseRefersToOwnOutputs ==
  \A r \in Requests :
    up[r].pc = "responded" =>
      LET own == process_pdf(up[r].file[1], up[r].add_watermarks,
                             up[r].remove_first_last)
      IN up[r].response[1] =
           [odd |-> Some(own.odd_writer), even |-> Some(own.even_writer)]

\* The outputs of the i-th uploaded file under the options of the batch.
UploadedOut(i) ==
  process_pdf(uploaded[i], options.add_watermarks, options.remove_first_last)

\* C20: the i-th document of an /upload-multiple batch is the i-th uploaded
\* file, also when two files share a name, and a batch that returns has
\* merged every uploaded document once, in upload order.
C20_BatchProcessesUploadedFiles ==
  uploaded # <<>> =>
    /\ Len(input_paths) = Len(uploaded)
    /\ \A i \in 1..Len(uploaded) : input_paths[i] = uploaded[i]
    /\ pc = "returned" =>
         /\ \A i \in 1..Len(uploaded) : ~Fatal(uploaded[i])
         /\ writers.merged_odd =
              Concat([i \in 1..Len(uploaded) |-> UploadedOut(i).odd_writer])
         /\ writers.merged_even =
              Concat([i \in 1..Len(uploaded) |-> UploadedOut(i).even_writer])

Next ==
  \/ ProcessPdf
  \/ PdfReturn
  \/ SplitChunks
  \/ ChunksReturn
  \/ BatchStart
  \/ BatchProcessFile
  \/ BatchMerge
  \/ BatchSave
  \/ BatchChunk
  \/ BatchFinally
  \/ BatchEnd
  \/ UploadMultiple
  \/ \E r \in Requests : UploadSave(r)
  \/ \E r \in Requests : UploadProcess(r)
  \/ \E r \in Requests : UploadWriteOdd(r)
  \/ \E r \in Requests : UploadWriteEven(r)
  \/ \E r \in Requests : UploadRespond(r)
  \/ UploadsEnd

Spec == Init /\ [][Next]_vars

====
